---- MODULE Spec2Model ----
(***************************************************************************)
(* Model of the HTTP query execution controller of                         *)
(* src/query/src/servers/http/v1/query/execute_state.rs:                   *)
(* the Executor (start_time + ExecuteState under an RwLock), the           *)
(* Executor::stop transition, the status readers extract / get_progress /  *)
(* elapsed, the HttpQueryHandle::abort signal channel and the pump task    *)
(* spawned by ExecuteState::try_create.                                    *)
(***************************************************************************)
EXTENDS Integers, Sequences, FiniteSets, TLC

(* ------------------------------ bounds --------------------------------- *)
\* most UDF statements run on one context
MaxStmts == 6
\* most items (blocks or an error) the block sequence yields before it ends
MaxItems == 3
\* most abort() calls made on the HttpQueryHandle
MaxAborts == 2
\* last instant of the clock
MaxTime == 1
\* largest value of the context's scan progress counter
MaxProgress == 1
\* capacity of the outbound block channel handed to try_create
BlockCap == 1

(* --------------------------- program constants ------------------------- *)
\* mpsc::channel(2) of the abort signal
AbortCap == 2

\* Result<()> values: Ok(()), the pump's AbortedQuery("query aborted"), and
\* the errors the block sequence can yield
OkReason == "Ok"
Aborted == "AbortedQuery"
UpstreamErrors == {"E1", "E2"}
Reasons == {OkReason, Aborted} \cup UpstreamErrors
NoError == "None"

\* the tasks that call Executor::stop
Callers == {"pump", "ext"}

VARIABLES
    executor,       \* Executor {start_time, state} behind the RwLock
    lock,           \* holder of the RwLock's write guard, or "free"
    call,           \* per caller: its position in Executor::stop and its locals
    now,            \* Instant::now()
    scan_progress,  \* context.get_scan_progress_value()
    pump_pc,        \* position of the pump task
    held,           \* block offered to block_tx in the select!, 0 if none
    pulled,         \* items data_stream.next() has returned so far
    block_ch,       \* blocks buffered in the outbound channel
    received,       \* blocks the downstream consumer has received
    rx_closed,      \* the downstream receiver has been dropped
    abort_pending,  \* spawned abort tasks still awaiting sender.send(())
    abort_ch,       \* signals buffered in the abort channel
    aborts,         \* abort() calls made so far
    kills,          \* session.force_kill_query() invocations
    finish_calls,   \* interpreter.finish() invocations
    writes,         \* assignments to guard.state
    acquired,       \* stop calls in the order they got the write guard
    abort_early,    \* abort() was called while the pump awaited its first item
    finish_res,     \* what finish() returned to the stop call in flight
    exit_by,        \* the branch by which the pump loop was left
    sent,           \* blocks the outbound channel has accepted
    reader,         \* a status reader: "idle", or "waiting" for the read guard
    tc,             \* the try_create call: position, inputs and result
    udf             \* the user-defined function registry and the last statement

vars == <<executor, lock, call, now, scan_progress, pump_pc, held, pulled,
          block_ch, received, rx_closed, abort_pending, abort_ch, aborts,
          kills, finish_calls, writes, acquired, abort_early, finish_res,
          exit_by, sent, reader, tc, udf>>

(* ------------------------------ data ----------------------------------- *)
\* ExecuteState::Running(ExecuteRunning)
Running == [tag |-> "Running"]

\* ExecuteState::Stopped(ExecuteStopped {progress, reason, stop_time})
Stopped(progress, reason, stop_time) ==
    [tag |-> "Stopped", progress |-> progress, reason |-> reason,
     stop_time |-> stop_time]

IsRunning(st) == st.tag = "Running"
IsStopped(st) == st.tag = "Stopped"

\* a caller that is not inside Executor::stop
IdleCall == [pc |-> "idle", reason |-> OkReason, kill |-> FALSE, progress |-> 0]
\* a caller that has returned from Executor::stop
RetCall == [pc |-> "ret", reason |-> OkReason, kill |-> FALSE, progress |-> 0]
\* a caller that has entered Executor::stop and awaits this.write()
EnterStop(reason, kill) ==
    [pc |-> "acquire", reason |-> reason, kill |-> kill, progress |-> 0]

(* --------------------------- status readers ---------------------------- *)
\* extract losing the captured error of a Stopped state
extractNoError(st) ==
    IF IsRunning(st) THEN <<"Running", NoError>>
    ELSE IF st.reason = OkReason THEN <<"Succeeded", NoError>>
         ELSE <<"Failed", NoError>>

\* ExecuteState::extract
extract(st) ==
    IF IsRunning(st) THEN <<"Running", NoError>>
    ELSE IF st.reason = OkReason THEN <<"Succeeded", NoError>>
         ELSE <<"Failed", st.reason>>

\* get_progress reading the live counter in both variants
get_progressLive(ex, live) == live

\* Executor::get_progress, live being the context's counter at the call
get_progress(ex, live) ==
    IF IsRunning(ex.state) THEN live ELSE ex.state.progress

\* Executor::elapsed, t being Instant::now() at the call
elapsed(ex, t) ==
    IF IsRunning(ex.state) THEN t - ex.start_time
    ELSE ex.state.stop_time - ex.start_time

(* ----------------------------- try_create ------------------------------ *)
\* the fallible calls of try_create, in program order (lines 155-224)
CreateSteps ==
    <<"create_session", "create_context", "set_current_database",
      "create_context2", "get_user", "parse", "get_interpreter", "start",
      "execute", "try_create_abortable", "try_spawn">>

StepNames == {CreateSteps[i] : i \in 1..Len(CreateSteps)}

\* Result<(ExecutorRef, DataSchemaRef)> of try_create
Pending == <<"pending">>
CreateOk == <<"Ok">>
CreateErr(step) == <<"Err", step>>

\* a try_create call that went through and returned Ok (line 226)
Created ==
    [pc |-> Len(CreateSteps) + 1, has_db |-> FALSE, fails |-> {},
     result |-> CreateOk]

\* no Executor exists (before line 195, or after it was dropped on error)
NoExecutor == [start_time |-> 0, state |-> [tag |-> "None"]]

(* ---------------------------- UDF registry ----------------------------- *)
\* the statements of interpreter_udf_drop.rs
CREATE_UDF == "CREATE FUNCTION IF NOT EXISTS isnotempty"
DROP_UDF == "DROP FUNCTION isnotempty"
DROP_UDF_IF_EXISTS == "DROP FUNCTION IF EXISTS isnotempty"
Statements == {CREATE_UDF, DROP_UDF, DROP_UDF_IF_EXISTS}

\* the function CREATE_UDF defines, as get_udf returns it
IsNotEmpty ==
    [name |-> "isnotempty", definition |-> "not(isnull(@0))",
     description |-> "This is a description"]
Absent == [name |-> "none"]

\* the statements test_drop_udf_interpreter runs, in order
TestScript ==
    <<CREATE_UDF, DROP_UDF, DROP_UDF_IF_EXISTS, DROP_UDF, CREATE_UDF,
      DROP_UDF_IF_EXISTS>>

\* a test that expected the second plain DROP to succeed as well
TestExpectAllOk == <<"ok", "ok", "ok", "ok", "ok", "ok">>

\* what the test asserts of each statement: is_ok / is_err of execute, and
\* for CREATE that get_udf returns the function
TestExpect == <<"ok", "ok", "ok", "err", "ok", "ok">>

\* CreatUDFInterpreter / DropUDFInterpreter::execute on a registry holding
\* `reg`: the registry after the statement and the statement's result
ExecuteUdf(stmt, reg) ==
    IF stmt = CREATE_UDF
    THEN [reg |-> IF reg = Absent THEN IsNotEmpty ELSE reg, res |-> "ok"]
    ELSE IF stmt = DROP_UDF_IF_EXISTS
         THEN [reg |-> Absent, res |-> "ok"]
         ELSE [reg |-> Absent,
               res |-> IF reg = Absent THEN "err" ELSE "ok"]

\* no function registered, no statement run
NoUdf == [reg |-> Absent, log |-> <<>>]

(* ------------------------------- Init ---------------------------------- *)
\* try_create after it has spawned the pump task and returned
Init ==
    /\ now \in 0..1
    /\ executor = [start_time |-> now, state |-> Running]
    /\ lock = "free"
    /\ call = [c \in Callers |-> IdleCall]
    /\ scan_progress = 0
    /\ pump_pc = "next"
    /\ held = 0
    /\ pulled = <<>>
    /\ block_ch = <<>>
    /\ received = <<>>
    /\ rx_closed = FALSE
    /\ abort_pending = 0
    /\ abort_ch = 0
    /\ aborts = 0
    /\ kills = 0
    /\ finish_calls = 0
    /\ writes = 0
    /\ acquired = <<>>
    /\ abort_early = FALSE
    /\ finish_res = "none"
    /\ exit_by = "none"
    /\ sent = <<>>
    /\ reader = "idle"
    /\ tc = Created
    /\ udf = NoUdf

(* --------------------------- Executor::stop ---------------------------- *)
\* stop writing without looking at the current variant
StopGuardAlways(st) == TRUE

\* line 106: if let Running(r) = &guard.state
StopGuard(st) == IsRunning(st)

\* line 109: if kill { r.session.force_kill_query() }
KillCount(kill) == IF kill THEN 1 ELSE 0

\* lines 105-117: the write guard is obtained; when Running the progress is
\* snapshotted, the session killed if asked, and interpreter.finish() is
\* awaited with the guard held; otherwise the guard is dropped at once.
StopAcquire(c) ==
    /\ call[c].pc = "acquire"
    /\ lock = "free"
    /\ acquired' = Append(acquired, [caller |-> c, reason |-> call[c].reason,
                                     kill |-> call[c].kill])
    /\ IF StopGuard(executor.state)
       THEN /\ lock' = c
            /\ call' = [call EXCEPT ![c].pc = "finish",
                                    ![c].progress = scan_progress]
            /\ kills' = kills + KillCount(call[c].kill)
            /\ finish_calls' = finish_calls + 1
       ELSE /\ lock' = "free"
            /\ call' = [call EXCEPT ![c] = RetCall]
            /\ UNCHANGED <<kills, finish_calls>>
    /\ UNCHANGED <<executor, now, scan_progress, pump_pc, held, pulled,
                   block_ch, received, rx_closed, abort_pending, abort_ch,
                   aborts, writes, abort_early, finish_res, exit_by, sent,
                   reader, tc, udf>>

\* interpreter.finish() returns Ok(()) or an error
FinishError == "FinishErr"
FinishResults == {OkReason, FinishError}

\* a stop that lets the error of the finish hook replace the outcome
StopReasonOfHook(reason, res) == IF res = OkReason THEN reason ELSE res

\* lines 113-120: `let _ = ...finish().await.map_err(log)`, then `reason`
\* is written as passed
StopReason(reason, res) == reason

\* lines 113-116: the awaited interpreter.finish() completes
FinishHook(c) ==
    /\ call[c].pc = "finish"
    /\ lock = c
    /\ finish_res = "none"
    /\ \E res \in FinishResults : finish_res' = res
    /\ UNCHANGED <<executor, lock, call, now, scan_progress, pump_pc, held,
                   pulled, block_ch, received, rx_closed, abort_pending,
                   abort_ch, aborts, kills, finish_calls, writes, acquired,
                   abort_early, exit_by, sent, reader, tc, udf>>

\* lines 117-123: finish() has returned (its result is discarded), the
\* Stopped state is written and the guard released.
StopFinish(c) ==
    /\ call[c].pc = "finish"
    /\ lock = c
    /\ finish_res # "none"
    /\ finish_res' = "none"
    /\ executor' = [executor EXCEPT
          !.state = Stopped(call[c].progress,
                            StopReason(call[c].reason, finish_res), now)]
    /\ writes' = writes + 1
    /\ lock' = "free"
    /\ call' = [call EXCEPT ![c] = RetCall]
    /\ UNCHANGED <<now, scan_progress, pump_pc, held, pulled, block_ch,
                   received, rx_closed, abort_pending, abort_ch, aborts, kills,
                   finish_calls, acquired, abort_early, exit_by, sent, reader,
                   tc, udf>>

(* ------------------------------ pump task ------------------------------ *)
\* the abort branch stopping without the kill flag
AbortStopArgsNoKill == [reason |-> Aborted, kill |-> FALSE]
\* line 209: Executor::stop(&executor, Err(AbortedQuery), true)
AbortStopArgs == [reason |-> Aborted, kill |-> TRUE]
\* the error branch stopping with the kill flag
ErrStopArgsKill(err) == [reason |-> err, kill |-> TRUE]
\* line 214: Executor::stop(&executor, Err(err), false)
ErrStopArgs(err) == [reason |-> err, kill |-> FALSE]
\* an exhausted branch that honours a signal still queued
EndStopArgsIfSignalled ==
    IF abort_ch > 0 THEN [reason |-> Aborted, kill |-> TRUE]
    ELSE [reason |-> OkReason, kill |-> FALSE]
\* the exhausted branch stopping with the kill flag
EndStopArgsKill == [reason |-> OkReason, kill |-> TRUE]
\* line 219: Executor::stop(&executor, Ok(()), false)
EndStopArgs == [reason |-> OkReason, kill |-> FALSE]

PumpCallStop(args) ==
    /\ pump_pc' = "stop"
    /\ call' = [call EXCEPT !["pump"] = EnterStop(args.reason, args.kill)]

\* lines 204-206: data_stream.next() yields Some(Ok(block))
PumpNextBlock ==
    /\ pump_pc = "next"
    /\ Len(pulled) < MaxItems
    /\ pulled' = Append(pulled, "B")
    /\ held' = Len(pulled) + 1
    /\ pump_pc' = "select"
    /\ UNCHANGED <<executor, lock, call, now, scan_progress, block_ch, received,
                   rx_closed, abort_pending, abort_ch, aborts, kills,
                   finish_calls, writes, acquired, abort_early, finish_res,
                   exit_by, sent, reader, tc, udf>>

\* lines 213-216: data_stream.next() yields Some(Err(err))
PumpNextErr ==
    /\ pump_pc = "next"
    /\ Len(pulled) < MaxItems
    /\ \E err \in UpstreamErrors :
          /\ pulled' = Append(pulled, err)
          /\ PumpCallStop(ErrStopArgs(err))
    /\ exit_by' = "err"
    /\ UNCHANGED <<executor, lock, now, scan_progress, held, block_ch, received,
                   rx_closed, abort_pending, abort_ch, aborts, kills,
                   finish_calls, writes, acquired, abort_early, finish_res,
                   sent, reader, tc, udf>>

\* lines 218-221: data_stream.next() yields None
PumpNextEnd ==
    /\ pump_pc = "next"
    /\ PumpCallStop(EndStopArgs)
    /\ exit_by' = "end"
    /\ UNCHANGED <<executor, lock, now, scan_progress, held, pulled, block_ch,
                   received, rx_closed, abort_pending, abort_ch, aborts, kills,
                   finish_calls, writes, acquired, abort_early, finish_res,
                   sent, reader, tc, udf>>

\* a send that never waits for room in the channel
SendReadyAlways == TRUE

\* line 207: block_tx.send(block) can complete: the channel has room, or the
\* receiver is gone and send returns Err
SendReady == rx_closed \/ Len(block_ch) < BlockCap

\* the abort channel raced also while awaiting data_stream.next()
AbortRecvReadyAtNext == pump_pc \in {"select", "next"} /\ abort_ch > 0

\* an abort branch that fires without a signal (recv() returning None)
AbortRecvReadyNoSignal == pump_pc = "select"

\* line 208: abort_rx.recv() is polled and has a signal
AbortRecvReady == pump_pc = "select" /\ abort_ch > 0

\* line 207: the send branch of the select! completes; its result is ignored
PumpSend ==
    /\ pump_pc = "select"
    /\ SendReady
    /\ block_ch' = IF rx_closed THEN block_ch ELSE Append(block_ch, held)
    /\ sent' = IF rx_closed THEN sent ELSE Append(sent, held)
    /\ held' = 0
    /\ pump_pc' = "next"
    /\ UNCHANGED <<executor, lock, call, now, scan_progress, pulled, received,
                   rx_closed, abort_pending, abort_ch, aborts, kills,
                   finish_calls, writes, acquired, abort_early, finish_res,
                   exit_by, reader, tc, udf>>

\* lines 208-211: the abort branch of the select! completes; the block of the
\* iteration is dropped with the cancelled send future
PumpAbortRecv ==
    /\ AbortRecvReady
    /\ abort_ch' = abort_ch - 1
    /\ held' = 0
    /\ PumpCallStop(AbortStopArgs)
    /\ exit_by' = "abort"
    /\ UNCHANGED <<executor, lock, now, scan_progress, pulled, block_ch,
                   received, rx_closed, abort_pending, aborts, kills,
                   finish_calls, writes, acquired, abort_early, finish_res,
                   sent, reader, tc, udf>>

\* a pump that does not wait for its stop call before it ends
StopDetached == TRUE

\* lines 209, 214, 219: Executor::stop(..).await has returned
StopReturned == call["pump"].pc = "ret"

\* lines 210-224: stop has returned; break, and the task ends, dropping
\* block_tx and abort_rx (signals still queued are discarded)
PumpExit ==
    /\ pump_pc = "stop"
    /\ StopReturned
    /\ pump_pc' = "done"
    /\ abort_ch' = 0
    /\ UNCHANGED <<executor, lock, call, now, scan_progress, held, pulled,
                   block_ch, received, rx_closed, abort_pending, aborts, kills,
                   finish_calls, writes, acquired, abort_early, finish_res,
                   exit_by, sent, reader, tc, udf>>

Pump ==
    \/ PumpNextBlock
    \/ PumpNextErr
    \/ PumpNextEnd
    \/ PumpSend
    \/ PumpAbortRecv
    \/ StopAcquire("pump")
    \/ FinishHook("pump")
    \/ StopFinish("pump")
    \/ PumpExit

(* -------------------------- HttpQueryHandle ---------------------------- *)
\* lines 132-137: abort() spawns a task that will send one signal
Abort ==
    /\ aborts < MaxAborts
    /\ aborts' = aborts + 1
    /\ abort_pending' = abort_pending + 1
    /\ abort_early' = (abort_early \/ (pump_pc = "next" /\ pulled = <<>>))
    /\ UNCHANGED <<executor, lock, call, now, scan_progress, pump_pc, held,
                   pulled, block_ch, received, rx_closed, abort_ch, kills,
                   finish_calls, writes, acquired, finish_res, exit_by, sent,
                   reader, tc, udf>>

\* line 135: sender.send(()) completes once the channel has room
AbortSend ==
    /\ abort_pending > 0
    /\ pump_pc # "done"
    /\ abort_ch < AbortCap
    /\ abort_pending' = abort_pending - 1
    /\ abort_ch' = abort_ch + 1
    /\ UNCHANGED <<executor, lock, call, now, scan_progress, pump_pc, held,
                   pulled, block_ch, received, rx_closed, aborts, kills,
                   finish_calls, writes, acquired, abort_early, finish_res,
                   exit_by, sent, reader, tc, udf>>

\* line 135: abort_rx is gone, send returns Err, discarded by .ok()
AbortSendClosed ==
    /\ abort_pending > 0
    /\ pump_pc = "done"
    /\ abort_pending' = abort_pending - 1
    /\ UNCHANGED <<executor, lock, call, now, scan_progress, pump_pc, held,
                   pulled, block_ch, received, rx_closed, abort_ch, aborts,
                   kills, finish_calls, writes, acquired, abort_early,
                   finish_res, exit_by, sent, reader, tc, udf>>

(* ----------------------------- environment ----------------------------- *)
\* the holder of the block receiver takes the next block
Recv ==
    /\ ~rx_closed
    /\ block_ch # <<>>
    /\ received' = Append(received, Head(block_ch))
    /\ block_ch' = Tail(block_ch)
    /\ UNCHANGED <<executor, lock, call, now, scan_progress, pump_pc, held,
                   pulled, rx_closed, abort_pending, abort_ch, aborts, kills,
                   finish_calls, writes, acquired, abort_early, finish_res,
                   exit_by, sent, reader, tc, udf>>

\* the holder of the block receiver drops it; buffered blocks are discarded
RxDrop ==
    /\ ~rx_closed
    /\ rx_closed' = TRUE
    /\ block_ch' = <<>>
    /\ UNCHANGED <<executor, lock, call, now, scan_progress, pump_pc, held,
                   pulled, received, abort_pending, abort_ch, aborts, kills,
                   finish_calls, writes, acquired, abort_early, finish_res,
                   exit_by, sent, reader, tc, udf>>

\* Instant::now() advances
Tick ==
    /\ now < MaxTime
    /\ now' = now + 1
    /\ UNCHANGED <<executor, lock, call, scan_progress, pump_pc, held, pulled,
                   block_ch, received, rx_closed, abort_pending, abort_ch,
                   aborts, kills, finish_calls, writes, acquired, abort_early,
                   finish_res, exit_by, sent, reader, tc, udf>>

\* the query's processors advance the context's scan progress
Progress ==
    /\ scan_progress < MaxProgress
    /\ scan_progress' = scan_progress + 1
    /\ UNCHANGED <<executor, lock, call, now, pump_pc, held, pulled, block_ch,
                   received, rx_closed, abort_pending, abort_ch, aborts, kills,
                   finish_calls, writes, acquired, abort_early, finish_res,
                   exit_by, sent, reader, tc, udf>>

\* the outcomes a second caller passes: success, the aborted-query error or
\* another error
ExtReasons == {OkReason, Aborted, "E1"}

\* another task of the crate calls Executor::stop(this, reason, kill), once
ExtStop ==
    /\ call["ext"].pc = "idle"
    /\ \E reason \in ExtReasons, kill \in BOOLEAN :
          call' = [call EXCEPT !["ext"] = EnterStop(reason, kill)]
    /\ UNCHANGED <<executor, lock, now, scan_progress, pump_pc, held, pulled,
                   block_ch, received, rx_closed, abort_pending, abort_ch,
                   aborts, kills, finish_calls, writes, acquired, abort_early,
                   finish_res, exit_by, sent, reader, tc, udf>>

(* ----------------------------- status reader -------------------------- *)
\* the variables a status reader does not touch
read_vars == <<executor, lock, call, now, scan_progress, pump_pc, held,
               pulled, block_ch, received, rx_closed, abort_pending, abort_ch,
               aborts, kills, finish_calls, writes, acquired, abort_early,
               finish_res, exit_by, sent, tc, udf>>

\* line 78: the Executor is reached through Arc<RwLock<Executor>>, so
\* get_progress, elapsed and extract need its read guard; read().await
\* suspends while a stop call holds the write guard
ReaderWait ==
    /\ reader = "idle"
    /\ lock # "free"
    /\ reader' = "waiting"
    /\ UNCHANGED read_vars

\* the write guard was dropped: the reader gets the read guard, reads the
\* status and drops the guard
ReaderRead ==
    /\ reader = "waiting"
    /\ lock = "free"
    /\ reader' = "idle"
    /\ UNCHANGED read_vars

(* ---------------------------- UDF statements --------------------------- *)
\* the variables a UDF statement does not touch
udf_vars == <<executor, lock, call, now, scan_progress, pump_pc, held,
              pulled, block_ch, received, rx_closed, abort_pending, abort_ch,
              aborts, kills, finish_calls, writes, acquired, abort_early,
              finish_res, exit_by, sent, reader, tc>>

\* a statement is parsed and its interpreter executed on the shared context
RunUdf ==
    /\ Len(udf.log) < MaxStmts
    /\ \E stmt \in Statements :
          LET r == ExecuteUdf(stmt, udf.reg) IN
          udf' = [reg |-> r.reg,
                  log |-> Append(udf.log, [stmt |-> stmt, res |-> r.res])]
    /\ UNCHANGED udf_vars

(* ------------------------- try_create, stepwise ------------------------ *)
\* the variables try_create does not touch before the pump task runs
ctl_vars == <<lock, call, now, scan_progress, held, pulled, block_ch,
              received, rx_closed, abort_pending, abort_ch, aborts, kills,
              finish_calls, writes, acquired, abort_early, finish_res,
              exit_by, sent, reader, udf>>

\* the call try_create is at
StepAt == CreateSteps[tc.pc]

\* line 157: the database is bound only `if let Some(db)`
Applies(step) == step = "set_current_database" => tc.has_db

\* a try_create that returns the start hook's error like any other
PropagatesAll(step) == TRUE

\* every call ends in `?` except interpreter.start(), whose error is only
\* logged (lines 177-180)
Propagates(step) == step # "start"

\* the call at tc.pc returns an error that `?` hands to the caller
StepFails ==
    /\ Applies(StepAt)
    /\ StepAt \in tc.fails
    /\ Propagates(StepAt)

\* before try_create is entered: the request carries a database or not, and
\* any of the collaborators' calls may be going to fail
InitCreate ==
    /\ now \in 0..1
    /\ executor = NoExecutor
    /\ pump_pc = "unspawned"
    /\ tc \in [pc : {1}, has_db : BOOLEAN, fails : SUBSET StepNames,
               result : {Pending}]
    /\ lock = "free"
    /\ call = [c \in Callers |-> IdleCall]
    /\ scan_progress = 0
    /\ held = 0
    /\ pulled = <<>>
    /\ block_ch = <<>>
    /\ received = <<>>
    /\ rx_closed = FALSE
    /\ abort_pending = 0
    /\ abort_ch = 0
    /\ aborts = 0
    /\ kills = 0
    /\ finish_calls = 0
    /\ writes = 0
    /\ acquired = <<>>
    /\ abort_early = FALSE
    /\ finish_res = "none"
    /\ exit_by = "none"
    /\ sent = <<>>
    /\ reader = "idle"
    /\ udf = NoUdf

\* lines 155-198: a call before try_spawn succeeds, is skipped, or fails
\* without consequence; after try_create_abortable the abort channel and the
\* Executor (Running, start_time = now) are built
CreateAdvance ==
    /\ tc.result = Pending
    /\ StepAt # "try_spawn"
    /\ ~StepFails
    /\ tc' = [tc EXCEPT !.pc = @ + 1]
    /\ executor' = IF StepAt = "try_create_abortable"
                   THEN [start_time |-> now, state |-> Running]
                   ELSE executor
    /\ UNCHANGED <<pump_pc, ctl_vars>>

\* lines 155-224: `?` returns the error of the failing call; an Executor
\* already built is dropped
CreateFail ==
    /\ tc.result = Pending
    /\ StepFails
    /\ tc' = [tc EXCEPT !.result = CreateErr(StepAt)]
    /\ executor' = NoExecutor
    /\ UNCHANGED <<pump_pc, ctl_vars>>

\* lines 201-226: context.try_spawn starts the pump task and
\* Ok((executor_clone, schema)) is returned
CreateSpawn ==
    /\ tc.result = Pending
    /\ StepAt = "try_spawn"
    /\ ~StepFails
    /\ pump_pc' = "next"
    /\ tc' = [tc EXCEPT !.pc = @ + 1, !.result = CreateOk]
    /\ UNCHANGED <<executor, ctl_vars>>

(* --------------------------- specifications ---------------------------- *)
Next ==
    \/ Pump
    \/ Abort
    \/ AbortSend
    \/ AbortSendClosed
    \/ Recv
    \/ RxDrop
    \/ Tick
    \/ Progress

\* the controller as try_create builds it: the pump is the only stop caller
Spec == Init /\ [][Next]_vars

NextRace ==
    \/ Next
    \/ ExtStop
    \/ StopAcquire("ext")
    \/ FinishHook("ext")
    \/ StopFinish("ext")

\* the controller with a second task calling Executor::stop
SpecRace == Init /\ [][NextRace]_vars

\* the tokio scheduler runs a ready pump task, and the consumer keeps
\* receiving while its receiver is open
FairSpec == Spec /\ WF_vars(Pump) /\ WF_vars(Recv)

NextRead ==
    \/ Next
    \/ ReaderWait
    \/ ReaderRead

\* the controller polled by a status reader
SpecRead == Init /\ [][NextRead]_vars

NextUdf == RunUdf

\* UDF statements run one after another on one query context
SpecUdf == Init /\ [][NextUdf]_vars

NextCreate ==
    \/ CreateAdvance
    \/ CreateFail
    \/ CreateSpawn

\* one call of try_create, up to its return
SpecCreate == InitCreate /\ [][NextCreate]_vars

(* ------------------------------ properties ----------------------------- *)
st == executor.state

\* the blocks handed to the outbound channel and not discarded, in order
Delivered == received \o block_ch

\* <<1, ..., n>>
Iota(n) == [i \in 1..n |-> i]

LastPulled == pulled[Len(pulled)]

\* C1: under every interleaving of pump steps, stop calls, abort() calls and
\* clock/progress changes, the state is written at most once, only from
\* Running to Stopped, and a Stopped executor (progress, reason, stop_time)
\* never changes again.
C1_StoppedIsFinal ==
    [][ /\ (IsStopped(st) => executor' = executor)
        /\ (executor' # executor =>
               /\ IsRunning(st)
               /\ IsStopped(executor'.state)
               /\ executor'.start_time = executor.start_time)
        /\ writes' <= 1 ]_vars

\* a second stop call got the guard after the state was written, and the
\* clock and the live counter have moved on since
C1_Witness ==
    /\ IsStopped(st)
    /\ Len(acquired) = 2
    /\ now > st.stop_time
    /\ scan_progress > st.progress

\* C2: of two stop calls on one Executor exactly one writes the state; the
\* other takes no snapshot, kills nothing and calls no finish hook (both
\* happen once, in the writing call only); the outcome written is the one
\* passed by the call that got the write guard first.
C2_FirstStopWins ==
    /\ writes <= 1
    /\ finish_calls <= 1
    /\ kills <= 1
    /\ Len(acquired) >= 1 =>
          /\ finish_calls = 1
          /\ kills = (IF acquired[1].kill THEN 1 ELSE 0)
    /\ IsStopped(st) <=> writes = 1
    /\ IsStopped(st) => st.reason = acquired[1].reason
    /\ \A c \in Callers :
          call[c].pc = "finish" => acquired[1].caller = c /\ Len(acquired) = 1

\* both calls have returned; they passed different outcomes and kill flags
C2_Witness ==
    /\ Len(acquired) = 2
    /\ call["pump"].pc = "ret"
    /\ call["ext"].pc = "ret"
    /\ acquired[1].reason # acquired[2].reason
    /\ acquired[1].kill # acquired[2].kill
    /\ IsStopped(st)

C4_ExtractStatus ==
    LET r == extract(st) IN
    /\ r[1] \in {"Running", "Succeeded", "Failed"}
    /\ (r[2] # NoError) <=> (r[1] = "Failed")
    /\ IsRunning(st) <=> r[1] = "Running"
    /\ IsStopped(st) =>
          /\ (r[1] = "Succeeded") <=> (st.reason = OkReason)
          /\ (r[1] = "Failed") <=> (st.reason \in Reasons \ {OkReason})
          /\ r[1] = "Failed" => r[2] = st.reason

C4_Witness ==
    /\ IsStopped(st)
    /\ st.reason = "E2"
    /\ extract(st) = <<"Failed", "E2">>

\* the abort branch of the select! is taken in this step
AbortTaken == abort_ch' = abort_ch - 1 /\ pump_pc' = "stop"

C6_AbortOnlyInRace ==
    [][ /\ pump_pc = "next" =>
              /\ IsRunning(st)
              /\ kills = 0
              /\ finish_calls = 0
              /\ lock = "free"
        /\ (abort_ch' < abort_ch /\ pump_pc' # "done") =>
              /\ pump_pc = "select"
              /\ held # 0
              /\ LastPulled = "B"
        /\ (pump_pc = "next" /\ pump_pc' = "stop") =>
              call'["pump"].reason # Aborted ]_vars

\* the pump is parked awaiting a later item with the abort channel full
C6_Witness ==
    /\ pump_pc = "next"
    /\ abort_ch = AbortCap
    /\ aborts = MaxAborts
    /\ pulled # <<>>
    /\ IsRunning(st)

\* C7 as claimed: once abort() was called while the pump awaited its first
\* item, the query ends Failed with the aborted-query error and the session
\* force-killed.
C7_AbortEarlyEndsAborted ==
    (abort_early /\ pump_pc = "done") =>
        /\ IsStopped(st)
        /\ st.reason = Aborted
        /\ kills = 1

\* C7 amended: after an abort() made while the pump awaited its first item,
\* the Executor is Failed with the aborted-query error, the session killed
\* once, only when a block was produced and the signal won the race against
\* its send (that block being the last item pulled and not delivered); a
\* sequence that ends or fails first, or whose sends win, ends the query with
\* the sequence's own outcome and no kill.
C7_AbortEarlyNeedsBlock ==
    abort_early =>
        /\ (kills > 0 \/ (IsStopped(st) /\ st.reason = Aborted)) =>
              /\ pulled # <<>>
              /\ LastPulled = "B"
              /\ Len(pulled) \notin {Delivered[i] : i \in 1..Len(Delivered)}
              /\ kills = 1
        /\ pump_pc = "done" =>
              /\ IsStopped(st)
              /\ st.reason = Aborted <=> kills = 1
              /\ st.reason = OkReason =>
                    \A i \in 1..Len(pulled) : pulled[i] = "B"
              /\ st.reason \in UpstreamErrors => LastPulled = st.reason

\* the early abort took effect, after a block had been delivered
C7_Witness ==
    /\ abort_early
    /\ pump_pc = "done"
    /\ IsStopped(st)
    /\ st.reason = Aborted
    /\ Len(pulled) >= 2
    /\ kills = 1

\* the k-th item is an error, no abort was requested, the receiver is open
ErrorAt(k) ==
    /\ Len(pulled) >= k
    /\ pulled[k] \in UpstreamErrors
    /\ aborts = 0
    /\ ~rx_closed

\* the pump has ended on the k-th item's error, blocks 1..k-1 received
FailedAt(k) ==
    /\ Len(pulled) = k
    /\ pulled[k] \in UpstreamErrors
    /\ extract(st) = <<"Failed", pulled[k]>>
    /\ received = Iota(k - 1)
    /\ kills = 0
    /\ pump_pc = "done"

\* C8: when the k-th item is an error, no abort is requested and the
\* consumer keeps receiving: exactly blocks 1..k-1 were delivered, nothing
\* is pulled after the k-th item, the session is not killed, and the
\* Executor becomes Failed carrying that error.
C8_ErrorAtK ==
    /\ [](\A k \in 1..MaxItems : ErrorAt(k) =>
              /\ Len(pulled) = k
              /\ Delivered = Iota(k - 1)
              /\ kills = 0
              /\ pump_pc \in {"stop", "done"}
              /\ IsStopped(st) => extract(st) = <<"Failed", pulled[k]>>
              /\ pump_pc = "done" => IsStopped(st))
    /\ \A k \in 1..MaxItems :
          ErrorAt(k) ~> (aborts > 0 \/ rx_closed \/ FailedAt(k))

\* the error came third, after two delivered blocks
C8_Witness ==
    /\ ErrorAt(3)
    /\ FailedAt(3)
    /\ received = <<1, 2>>
    /\ pulled[3] = "E2"

\* the sequence was exhausted without error, every block was received and
\* the query ended Succeeded without a kill
PumpedAll ==
    /\ pump_pc = "done"
    /\ \A i \in 1..Len(pulled) : pulled[i] = "B"
    /\ received = Iota(Len(pulled))
    /\ extract(st) = <<"Succeeded", NoError>>
    /\ kills = 0

\* C9: when the sequence is finite and error-free, no abort is requested and
\* the consumer keeps receiving, the pump eventually terminates with every
\* produced block delivered and the Executor Succeeded, no error, no kill.
C9_CompletesSucceeded ==
    <>(\/ aborts > 0
       \/ rx_closed
       \/ \E i \in 1..Len(pulled) : pulled[i] \in UpstreamErrors
       \/ PumpedAll)

C9_Witness ==
    /\ PumpedAll
    /\ Len(pulled) >= 2
    /\ aborts = 0
    /\ ~rx_closed

\* C10: once Stopped, get_progress and elapsed keep returning the snapshot
\* taken by the stopping call and stop_time - start_time, whatever the
\* counters and the clock do; while Running they return the live counter and
\* now - start_time.
C10_FrozenStatus ==
    [][ /\ IsStopped(st) =>
              /\ get_progress(executor', scan_progress')
                    = get_progress(executor, scan_progress)
              /\ elapsed(executor', now') = elapsed(executor, now)
        /\ (IsRunning(st) /\ IsStopped(executor'.state)) =>
              /\ get_progress(executor', scan_progress') = call[lock].progress
              /\ elapsed(executor', now') = now - executor.start_time
        /\ IsRunning(st) =>
              /\ get_progress(executor, scan_progress) = scan_progress
              /\ elapsed(executor, now) = now - executor.start_time ]_vars

\* Stopped, and both the live counter and the clock have moved since
C10_Witness ==
    /\ IsStopped(st)
    /\ scan_progress > get_progress(executor, scan_progress)
    /\ now - executor.start_time > elapsed(executor, now)
    /\ pump_pc = "done"

\* the calls of try_create that are made and return an error `?` passes on
Failing ==
    {i \in 1..Len(CreateSteps) :
        /\ CreateSteps[i] \in tc.fails \ {"start"}
        /\ (CreateSteps[i] = "set_current_database" => tc.has_db)}

FirstFailing == CHOOSE i \in Failing : \A j \in Failing : i <= j

\* C11: when a call of try_create other than the start hook fails (session,
\* context, database binding, user lookup, parse, interpreter construction,
\* execute, abortable wrapping, spawn), try_create returns the error of the
\* first such call, returns no Executor and has spawned no pump task; when
\* only the start hook fails, try_create returns Ok with the Executor Running
\* and the pump task spawned.
C11_CreateErrors ==
    /\ pump_pc # "unspawned" => tc.result = CreateOk
    /\ tc.result # CreateOk => pump_pc = "unspawned"
    /\ tc.result # Pending =>
          IF Failing # {}
          THEN /\ tc.result = CreateErr(CreateSteps[FirstFailing])
               /\ executor = NoExecutor
               /\ pump_pc = "unspawned"
               /\ tc.pc = FirstFailing
          ELSE /\ tc.result = CreateOk
               /\ IsRunning(executor.state)
               /\ pump_pc = "next"

\* the start hook failed, nothing else did, and try_create has returned
C11_Witness ==
    /\ tc.fails = {"start"}
    /\ tc.has_db
    /\ tc.result = CreateOk
    /\ pump_pc = "next"
    /\ IsRunning(executor.state)

\* C12: when interpreter.finish() fails during a stop, the transition still
\* completes: the stop call goes on to write Stopped with the outcome passed
\* to stop and the progress snapshotted before the hook was awaited, and
\* returns; the hook's error never shows in the Executor's status.
C12_FinishErrorSwallowed ==
    /\ [][ (finish_res = FinishError /\ finish_res' # finish_res) =>
              /\ IsRunning(st)
              /\ IsStopped(executor'.state)
              /\ executor'.state.reason = call[lock].reason
              /\ executor'.state.progress = call[lock].progress
              /\ executor'.state.stop_time = now
              /\ extract(executor'.state)[2] # FinishError
              /\ call'[lock].pc = "ret"
              /\ lock' = "free"
              /\ writes' = writes + 1 ]_vars
    /\ [](finish_res # "none" =>
              /\ lock \in Callers
              /\ call[lock].pc = "finish"
              /\ IsRunning(st))
    /\ [](IsStopped(st) => st.reason \in Reasons)

\* the hook has failed inside the pump's stop on an upstream error
C12_Witness ==
    /\ finish_res = FinishError
    /\ lock = "pump"
    /\ call["pump"].reason = "E1"
    /\ pulled = <<"B", "E1">>
    /\ received = <<1>>

\* a stop call is suspended in interpreter.finish().await
InFinishHook == \E c \in Callers : call[c].pc = "finish"

\* C13: the write guard is held only for the snapshot and the write of the
\* Stopped state, not across a suspension point, so no status reader waits
\* for the guard while a stop call is suspended in the finish hook.
C13_NoReaderWaitsForHook ==
    ~(InFinishHook /\ lock # "free" /\ reader = "waiting")

\* the statements run so far
StmtsRun == [i \in 1..Len(udf.log) |-> udf.log[i].stmt]
ResultsRun == [i \in 1..Len(udf.log) |-> udf.log[i].res]

SentSet == {sent[i] : i \in 1..Len(sent)}

\* C15: when the abort branch wins, the block of that iteration is never
\* handed to the outbound channel, stop is called with the aborted-query
\* error and kill = true, the loop is left, and afterwards no item is pulled
\* and no block is handed to the channel.
C15_AbortWins ==
    [][ /\ (exit_by' = "abort" /\ exit_by # "abort") =>
              /\ pump_pc = "select"
              /\ held = Len(pulled)
              /\ LastPulled = "B"
              /\ call'["pump"] = EnterStop(Aborted, TRUE)
              /\ pump_pc' = "stop"
              /\ sent' = sent
        /\ exit_by = "abort" =>
              /\ pulled' = pulled
              /\ sent' = sent
              /\ block_ch' = block_ch \/ Len(block_ch') < Len(block_ch)
              /\ pump_pc' \in {"stop", "done"}
              /\ Len(pulled) \notin SentSet ]_vars

\* the abort won on the second block, after the first had been handed over
C15_Witness ==
    /\ exit_by = "abort"
    /\ pump_pc = "done"
    /\ pulled = <<"B", "B">>
    /\ sent = <<1>>
    /\ kills = 1
    /\ extract(st) = <<"Failed", Aborted>>

\* C16: whenever the send branch wins and the loop goes on to pull the next
\* item, the block of the iteration was accepted by the outbound channel,
\* the receiver being open or closed; an item is pulled only when the block
\* before it was delivered.
C16_SendWinDelivers ==
    [][ /\ (pump_pc = "select" /\ pump_pc' = "next") =>
              /\ sent' = Append(sent, held)
              /\ block_ch' = Append(block_ch, held)
        /\ (pulled' # pulled /\ pulled # <<>>) =>
              Len(pulled) \in SentSet ]_vars

\* the consumer's recv() returns None: every sender is gone, nothing buffered
EndOfStream == pump_pc = "done" /\ block_ch = <<>> /\ ~rx_closed

\* C17: the pump task ends, releasing block_tx, only after its stop call
\* has returned, so a consumer that sees end-of-stream reads the Executor as
\* Succeeded or Failed, never Running.
C17_EndOfStreamIsStopped ==
    /\ pump_pc = "done" =>
          /\ IsStopped(st)
          /\ call["pump"].pc = "ret"
          /\ lock # "pump"
    /\ EndOfStream => extract(st)[1] \in {"Succeeded", "Failed"}

\* end-of-stream after two blocks were received
C17_Witness ==
    /\ EndOfStream
    /\ received = <<1, 2>>
    /\ extract(st) = <<"Succeeded", NoError>>

\* the blocks pulled that the outbound channel has not accepted
Undelivered ==
    {i \in 1..Len(pulled) : pulled[i] = "B" /\ i \notin SentSet}

\* C18: the blocks received downstream are a prefix, in production order and
\* without duplicates, of the blocks produced; at most one pulled block is
\* undelivered at a time; and a pulled block is missing from the delivered
\* ones only if it is the last one pulled and is still being offered or the
\* abort signal won its race.
C18_DeliveredPrefix ==
    /\ received = Iota(Len(received))
    /\ sent = Iota(Len(sent))
    /\ \A i \in 1..Len(received) : pulled[i] = "B" /\ i \in SentSet
    /\ Cardinality(Undelivered) <= 1
    /\ \A i \in Undelivered :
          /\ i = Len(pulled)
          /\ held = i \/ exit_by = "abort"

\* C19: the pump stops with the aborted-query error, and the session is
\* killed, only by consuming a signal that an earlier abort() call, made
\* while the Executor was Running, put into the abort channel; with no
\* abort() call no run ends aborted.
C19_AbortedNeedsAbortCall ==
    /\ [][ /\ (exit_by' = "abort" /\ exit_by # "abort") =>
                 /\ aborts >= 1
                 /\ abort_ch >= 1
                 /\ aborts - abort_pending >= 1
                 /\ IsRunning(st)
           /\ (abort_ch' > abort_ch) =>
                 /\ abort_pending' = abort_pending - 1
                 /\ pump_pc # "done"
           /\ (aborts' > aborts /\ pump_pc \in {"next", "select"}) =>
                 IsRunning(st) ]_vars
    /\ []((kills > 0 \/ exit_by = "abort"
             \/ (IsStopped(st) /\ st.reason = Aborted)) =>
                /\ aborts >= 1
                /\ exit_by = "abort")

\* one abort() call, and the query ended aborted with the session killed
C19_Witness ==
    /\ aborts = 1
    /\ exit_by = "abort"
    /\ extract(st) = <<"Failed", Aborted>>
    /\ kills = 1
    /\ pump_pc = "done"

\* C20: when the sequence is exhausted the pump stops with success and no
\* kill whatever abort() calls were made and signals are queued; the
\* Executor ends Succeeded, the session is not killed, and the signals still
\* queued are discarded with the abort receiver.
C20_LateAbortIgnored ==
    /\ [][ /\ (exit_by' = "end" /\ exit_by # "end") =>
                 /\ call'["pump"] = EnterStop(OkReason, FALSE)
                 /\ abort_ch' = abort_ch
           /\ pump_pc = "done" => abort_ch' = 0 ]_vars
    /\ [](exit_by = "end" =>
             /\ kills = 0
             /\ IsStopped(st) => extract(st) = <<"Succeeded", NoError>>
             /\ pump_pc = "done" => IsStopped(st) /\ abort_ch = 0)

\* Succeeded after the last block was received, a signal still queued
C20_Witness ==
    /\ exit_by = "end"
    /\ abort_ch >= 1
    /\ pulled # <<>>
    /\ received = Iota(Len(pulled))
    /\ extract(st) = <<"Succeeded", NoError>>
    /\ kills = 0

====
